---------------------------- MODULE Spec2Model ----------------------------
(***************************************************************************)
(* KeycloakService (src/src/service.ts): a facade over an admin REST       *)
(* client, an OpenID Connect issuer client and a UMA request helper.       *)
(*                                                                         *)
(* JavaScript is single threaded and cooperative: an async method runs     *)
(* synchronously up to its next `await`, so every action below is one      *)
(* such run-to-await segment of a call.  The identity provider (the        *)
(* network) is the environment: it answers each outstanding request with   *)
(* a value drawn from a small set, or with a failure.                      *)
(***************************************************************************)
EXTENDS Integers, Sequences, FiniteSets

(* ------------------------------ bounds -------------------------------- *)

\* number of initialize() calls a run may make
NInit == 2

\* number of refreshGrant() calls a run may make
NRef == 2

\* last instant of the clock (the clock starts at 0)
MaxTime == 1

InitCalls == 1..NInit
RefCalls == 1..NRef

(* ------------------------------ values -------------------------------- *)

\* JavaScript `undefined` / `null` where an object is expected
Undefined == [undefined |-> TRUE]
Null == [null |-> TRUE]

\* JavaScript `undefined` where a token string is expected
NoString == <<>>

\* strings that the code inspects are sequences of characters
HttpPrefix == <<"h", "t", "t", "p">>
AuthPath == <<"/", "a", "u", "t", "h">>
RealmsPath == <<"/", "a", "u", "t", "h", "/", "r", "e", "a", "l", "m", "s", "/">>

\* options.config.baseUrl values handed to the constructor
GoodUrls ==
    { <<"h", "t", "t", "p", ":", "/", "/", "k">>,
      <<"h", "t", "t", "p", "s", ":", "/", "/", "k", "/", "x">> }

BadUrls ==
    { <<"f", "t", "p", ":", "/", "/", "k">>,
      <<"x", "h", "t", "t", "p">>,
      <<"h", "t", "t">>,
      <<>> }

OptionsInputs ==
    { [config |-> [baseUrl |-> u, realmName |-> <<"m">>],
       credentials |-> [clientId |-> "cid", clientSecret |-> "sec"]]
      : u \in GoodUrls \cup BadUrls }

\* the well-known UMA2 configuration documents the provider may serve
UmaDocs ==
    { [issuer |-> "iss1", token_endpoint |-> "tok1",
       resource_registration_endpoint |-> "reg1"],
      [issuer |-> "iss2", token_endpoint |-> "tok2",
       resource_registration_endpoint |-> "reg2"] }

\* failures a network call may reject with
Errors == {"ECONNREFUSED", "E401"}

\* The token set the issuer mints in answer to request `req` (a grant or a
\* refresh of some call): every answer carries new token strings, and the
\* fields are optional.  expires_at = 0 stands for an absent expires_at;
\* real expiry instants are 1..MaxTime.
Shapes == [access : BOOLEAN, refresh : BOOLEAN, expires_at : 0..MaxTime]

Mint(req, shape) ==
    [expires_at |-> shape.expires_at,
     access_token |-> IF shape.access THEN <<"access">> \o req ELSE NoString,
     refresh_token |-> IF shape.refresh THEN <<"refresh">> \o req ELSE NoString]

\* the access token the admin client obtains for itself in auth()
AdminToken == <<"admin">>

(* ------------------------------- state -------------------------------- *)

VARIABLES
    phase,              \* "new", "threw" (constructor threw) or "ready"
    input,              \* the options argument of the constructor
    options,            \* this.options
    baseUrl,            \* this.baseUrl
    connect,            \* this.connect
    client,             \* this.client (the admin client)
    requestManager,     \* this.requestManager
    umaConfiguration,   \* this.umaConfiguration
    resourceManager,    \* this.resourceManager
    permissionManager,  \* this.permissionManager
    issuerClient,       \* this.issuerClient
    tokenSet,           \* this.tokenSet
    now,                \* the wall clock
    ipc,                \* initialize() call -> where it is suspended
    idata,              \* initialize() call -> its local `data`
    iout,               \* initialize() call -> outcome of its promise
    itrace,             \* initialize() call -> the steps it has performed
    rpc,                \* refreshGrant() call -> where it is suspended
    rtok,               \* refreshGrant() call -> its local `refresh_token`
    rout,               \* refreshGrant() call -> outcome of its promise
    rtrace              \* refreshGrant() call -> requests, answers and logs

svc == <<options, baseUrl, connect, client, requestManager, umaConfiguration,
         resourceManager, permissionManager, issuerClient, tokenSet>>
icalls == <<ipc, idata, iout, itrace>>
rcalls == <<rpc, rtok, rout, rtrace>>
vars == <<phase, input, svc, now, icalls, rcalls>>

(* ------------------------- library behaviour -------------------------- *)

\* a wrong prefix test: the prefix may occur anywhere (String.includes)
Includes(s, p) ==
    \E i \in 0..(Len(s) - Len(p)) : SubSeq(s, i + 1, i + Len(p)) = p

\* String.prototype.startsWith
StartsWith(s, p) ==
    /\ Len(s) >= Len(p)
    /\ SubSeq(s, 1, Len(p)) = p

\* index of the first "/" of s at or after position i (Len(s) + 1 if none)
RECURSIVE SlashFrom(_, _)
SlashFrom(s, i) ==
    IF i > Len(s) THEN Len(s) + 1
    ELSE IF s[i] = "/" THEN i
    ELSE SlashFrom(s, i + 1)

\* index of the first "//" of s at or after position i (0 if none)
RECURSIVE DoubleSlashFrom(_, _)
DoubleSlashFrom(s, i) ==
    IF i + 1 > Len(s) THEN 0
    ELSE IF s[i] = "/" /\ s[i + 1] = "/" THEN i
    ELSE DoubleSlashFrom(s, i + 1)

\* url.resolve(from, to) for an absolute path `to`: the path replaces
\* everything after the authority of `from`
Resolve(from, to) ==
    LET d == DoubleSlashFrom(from, 1) IN
    IF d = 0 THEN to
    ELSE SubSeq(from, 1, SlashFrom(from, d + 2) - 1) \o to

\* a wrong expiry test: a token counts as expired one instant early
ExpiredEarly(t, time) ==
    /\ t.expires_at # 0
    /\ t.expires_at <= time + 1

\* TokenSet.expired(): expires_in = max(expires_at - now, 0) is 0; without
\* an expires_at, expires_in is NaN and the token never counts as expired
Expired(t, time) ==
    /\ t.expires_at # 0
    /\ t.expires_at <= time

(* ---------------------------- constructor ----------------------------- *)

\* new KeycloakConnect({}, {...}) with the accessDenied hook installed
NewConnect(o) ==
    [resource |-> o.credentials.clientId,
     realm |-> o.config.realmName,
     authServerUrl |-> Resolve(o.config.baseUrl, AuthPath),
     secret |-> o.credentials.clientSecret,
     accessDeniedHook |-> TRUE]

\* new AdminClient(options.config): no access token yet
NewAdminClient(o) ==
    [config |-> o.config, accessToken |-> NoString]

\* the check of line 30
ValidBaseUrl(o) == StartsWith(o.config.baseUrl, HttpPrefix)

Construct ==
    /\ phase = "new"
    /\ IF ~ValidBaseUrl(input)
       THEN /\ phase' = "threw"
            /\ UNCHANGED svc
       ELSE /\ phase' = "ready"
            /\ options' = input
            /\ baseUrl' = Resolve(input.config.baseUrl,
                                  RealmsPath \o input.config.realmName)
            /\ connect' = NewConnect(input)
            /\ client' = NewAdminClient(input)
            /\ requestManager' =
                   [baseUrl |-> Resolve(input.config.baseUrl,
                                        RealmsPath \o input.config.realmName)]
            /\ UNCHANGED <<umaConfiguration, resourceManager,
                           permissionManager, issuerClient, tokenSet>>
    /\ UNCHANGED <<input, now, icalls, rcalls>>

(* ----------------------------- initialize ----------------------------- *)

\* the guard of line 57
AlreadyInitialized(uma) == uma # Undefined

\* lines 56-63: the guard, then the UMA configuration request
InitializeCall(c) ==
    /\ phase = "ready"
    /\ ipc[c] = "idle"
    /\ IF AlreadyInitialized(umaConfiguration)
       THEN /\ ipc' = [ipc EXCEPT ![c] = "done"]
            /\ iout' = [iout EXCEPT ![c] = <<"resolved">>]
            /\ UNCHANGED itrace
       ELSE /\ ipc' = [ipc EXCEPT ![c] = "awaitUma"]
            /\ itrace' = [itrace EXCEPT ![c] = Append(@, <<"umaReq">>)]
            /\ UNCHANGED iout
    /\ UNCHANGED <<phase, input, svc, now, idata, rcalls>>

\* a wrong handling of a rejected await: the failure is caught and the
\* call resolves
InitializeRejectSwallowed(c, at, ev, e) ==
    /\ ipc[c] = at
    /\ ipc' = [ipc EXCEPT ![c] = "done"]
    /\ iout' = [iout EXCEPT ![c] = <<"resolved">>]
    /\ itrace' = [itrace EXCEPT ![c] = Append(@, <<ev, e>>)]
    /\ UNCHANGED <<phase, input, svc, now, idata, rcalls>>

\* a rejected await: the call throws, nothing after the await runs
InitializeReject(c, at, ev, e) ==
    /\ ipc[c] = at
    /\ ipc' = [ipc EXCEPT ![c] = "done"]
    /\ iout' = [iout EXCEPT ![c] = <<"rejected", e>>]
    /\ itrace' = [itrace EXCEPT ![c] = Append(@, <<ev, e>>)]
    /\ UNCHANGED <<phase, input, svc, now, idata, rcalls>>

\* a wrong order: the admin client's authentication is started before the
\* managers are constructed
UmaResolveAuthFirst(c, data) ==
    /\ ipc[c] = "awaitUma"
    /\ umaConfiguration' = data
    /\ resourceManager' = [endpoint |-> data.resource_registration_endpoint]
    /\ permissionManager' = [endpoint |-> data.token_endpoint]
    /\ idata' = [idata EXCEPT ![c] = data]
    /\ ipc' = [ipc EXCEPT ![c] = "awaitAuth"]
    /\ itrace' = [itrace EXCEPT ![c] =
                     @ \o << <<"umaOk">>, <<"authReq">>, <<"managers">> >>]
    /\ UNCHANGED <<phase, input, options, baseUrl, connect, client,
                   requestManager, issuerClient, tokenSet, now, iout, rcalls>>

\* lines 61-73: the UMA document arrives; store it, build the managers,
\* start the admin client's authentication
UmaResolve(c, data) ==
    /\ ipc[c] = "awaitUma"
    /\ umaConfiguration' = data
    /\ resourceManager' = [endpoint |-> data.resource_registration_endpoint]
    /\ permissionManager' = [endpoint |-> data.token_endpoint]
    /\ idata' = [idata EXCEPT ![c] = data]
    /\ ipc' = [ipc EXCEPT ![c] = "awaitAuth"]
    /\ itrace' = [itrace EXCEPT ![c] =
                     @ \o << <<"umaOk">>, <<"managers">>, <<"authReq">> >>]
    /\ UNCHANGED <<phase, input, options, baseUrl, connect, client,
                   requestManager, issuerClient, tokenSet, now, iout, rcalls>>

UmaReject(c, e) == InitializeReject(c, "awaitUma", "umaFail", e)

\* a wrong admin authentication step: the realm base URL is rebound to the
\* discovered issuer
AuthResolveRebasing(c) ==
    /\ ipc[c] = "awaitAuth"
    /\ client' = [client EXCEPT !.accessToken = AdminToken]
    /\ baseUrl' = <<"i", "s", "s">>
    /\ ipc' = [ipc EXCEPT ![c] = "awaitDiscover"]
    /\ itrace' = [itrace EXCEPT ![c] =
                     @ \o << <<"authOk">>, <<"discoverReq">> >>]
    /\ UNCHANGED <<phase, input, options, connect, requestManager,
                   umaConfiguration, resourceManager, permissionManager,
                   issuerClient, tokenSet, now, idata, iout, rcalls>>

\* lines 69-75: the admin client is authenticated (it keeps its own access
\* token); start the issuer discovery
AuthResolve(c) ==
    /\ ipc[c] = "awaitAuth"
    /\ client' = [client EXCEPT !.accessToken = AdminToken]
    /\ ipc' = [ipc EXCEPT ![c] = "awaitDiscover"]
    /\ itrace' = [itrace EXCEPT ![c] =
                     @ \o << <<"authOk">>, <<"discoverReq">> >>]
    /\ UNCHANGED <<phase, input, options, baseUrl, connect, requestManager,
                   umaConfiguration, resourceManager, permissionManager,
                   issuerClient, tokenSet, now, idata, iout, rcalls>>

AuthReject(c, e) == InitializeReject(c, "awaitAuth", "authFail", e)

\* a wrong discovery step: the issuer client is kept in a local variable
\* and never stored in this.issuerClient
DiscoverResolveLocalClient(c) ==
    /\ ipc[c] = "awaitDiscover"
    /\ ipc' = [ipc EXCEPT ![c] = "awaitGrant"]
    /\ itrace' = [itrace EXCEPT ![c] =
                     @ \o << <<"discoverOk">>, <<"grantReq">> >>]
    /\ UNCHANGED <<phase, input, svc, now, idata, iout, rcalls>>

\* lines 75-86: the issuer is discovered; build the issuer client and ask
\* for the client-credentials grant
DiscoverResolve(c) ==
    /\ ipc[c] = "awaitDiscover"
    /\ issuerClient' = [issuer |-> idata[c].issuer,
                        client_id |-> options.credentials.clientId,
                        client_secret |-> options.credentials.clientSecret]
    /\ ipc' = [ipc EXCEPT ![c] = "awaitGrant"]
    /\ itrace' = [itrace EXCEPT ![c] =
                     @ \o << <<"discoverOk">>, <<"grantReq">> >>]
    /\ UNCHANGED <<phase, input, options, baseUrl, connect, client,
                   requestManager, umaConfiguration, resourceManager,
                   permissionManager, tokenSet, now, idata, iout, rcalls>>

DiscoverReject(c, e) == InitializeReject(c, "awaitDiscover", "discoverFail", e)

\* lines 82-91: the grant arrives; store the token set, log its expiry
GrantResolve(c, t) ==
    /\ ipc[c] = "awaitGrant"
    /\ tokenSet' = t
    /\ ipc' = [ipc EXCEPT ![c] = "done"]
    /\ iout' = [iout EXCEPT ![c] = <<"resolved">>]
    /\ itrace' = [itrace EXCEPT ![c] =
                     IF t.expires_at # 0
                     THEN @ \o << <<"grantOk">>, <<"log", "expires at">> >>
                     ELSE Append(@, <<"grantOk">>)]
    /\ UNCHANGED <<phase, input, options, baseUrl, connect, client,
                   requestManager, umaConfiguration, resourceManager,
                   permissionManager, issuerClient, now, idata, rcalls>>

GrantReject(c, e) == InitializeReject(c, "awaitGrant", "grantFail", e)

(* ---------------------------- refreshGrant ---------------------------- *)

\* lines 94-96: the cached token set is still good
ReturnCached(c) ==
    /\ rpc' = [rpc EXCEPT ![c] = "done"]
    /\ rout' = [rout EXCEPT ![c] = <<"resolved", tokenSet>>]
    /\ UNCHANGED <<rtok, rtrace>>

\* a wrong handling of the missing token set: throw instead of returning
MissingTokenSetThrows(c) ==
    /\ rpc' = [rpc EXCEPT ![c] = "done"]
    /\ rout' = [rout EXCEPT ![c] = <<"rejected", "Token set is missing">>]
    /\ rtrace' = [rtrace EXCEPT ![c] =
                     Append(@, <<"error", "Token set is missing">>)]
    /\ UNCHANGED rtok

\* lines 98-101: no token set
MissingTokenSet(c) ==
    /\ rpc' = [rpc EXCEPT ![c] = "done"]
    /\ rout' = [rout EXCEPT ![c] = <<"resolved", Null>>]
    /\ rtrace' = [rtrace EXCEPT ![c] =
                     Append(@, <<"error", "Token set is missing">>)]
    /\ UNCHANGED rtok

\* a wrong handling of the missing refresh token: no error is logged
MissingRefreshTokenSilent(c) ==
    /\ rpc' = [rpc EXCEPT ![c] = "done"]
    /\ rout' = [rout EXCEPT ![c] = <<"resolved", Null>>]
    /\ rtok' = [rtok EXCEPT ![c] = tokenSet.refresh_token]
    /\ rtrace' = [rtrace EXCEPT ![c] =
                     Append(@, <<"verbose", "Grant token expired">>)]

\* lines 103-110: the token set is expired and carries no refresh token
MissingRefreshToken(c) ==
    /\ rpc' = [rpc EXCEPT ![c] = "done"]
    /\ rout' = [rout EXCEPT ![c] = <<"resolved", Null>>]
    /\ rtok' = [rtok EXCEPT ![c] = tokenSet.refresh_token]
    /\ rtrace' = [rtrace EXCEPT ![c] =
                     @ \o << <<"verbose", "Grant token expired">>,
                             <<"error", "Refresh token is missing">> >>]

\* a single-flight refresh: while another call's refresh is in flight the
\* call sends nothing and returns the cached token set
SendRefreshSingleFlight(c) ==
    IF \E d \in RefCalls : rpc[d] = "awaitRefresh"
    THEN /\ rpc' = [rpc EXCEPT ![c] = "done"]
         /\ rout' = [rout EXCEPT ![c] = <<"resolved", tokenSet>>]
         /\ UNCHANGED <<rtok, rtrace>>
    ELSE /\ rpc' = [rpc EXCEPT ![c] = "awaitRefresh"]
         /\ rtok' = [rtok EXCEPT ![c] = tokenSet.refresh_token]
         /\ rtrace' = [rtrace EXCEPT ![c] =
                          @ \o << <<"verbose", "Grant token expired">>,
                                  <<"refreshReq", tokenSet.refresh_token>> >>]
         /\ UNCHANGED rout

\* lines 103-112: ask the issuer client, if there is one, for a refresh
\* and suspend on the await
SendRefresh(c) ==
    /\ rpc' = [rpc EXCEPT ![c] = "awaitRefresh"]
    /\ rtok' = [rtok EXCEPT ![c] = tokenSet.refresh_token]
    /\ rtrace' = [rtrace EXCEPT ![c] =
                     IF issuerClient = Undefined
                     THEN Append(@, <<"verbose", "Grant token expired">>)
                     ELSE @ \o << <<"verbose", "Grant token expired">>,
                                  <<"refreshReq", tokenSet.refresh_token>> >>]
    /\ UNCHANGED rout

\* lines 93-112, up to the await
RefreshGrantCall(c) ==
    /\ phase = "ready"
    /\ rpc[c] = "idle"
    /\ IF tokenSet # Undefined /\ ~Expired(tokenSet, now)
       THEN ReturnCached(c)
       ELSE IF tokenSet = Undefined
       THEN MissingTokenSet(c)
       ELSE IF tokenSet.refresh_token = NoString
       THEN MissingRefreshToken(c)
       ELSE SendRefresh(c)
    /\ UNCHANGED <<phase, input, svc, now, icalls>>

\* whether the call's refresh request went out (issuerClient?.refresh)
RefreshSent(c) ==
    \E i \in 1..Len(rtrace[c]) : rtrace[c][i][1] = "refreshReq"

\* a wrong propagation: the bearer token is set without the guard of
\* line 114, also to an absent access token
SetAccessTokenUnguarded(cl, t) ==
    [cl EXCEPT !.accessToken = t.access_token]

\* a wrong propagation: the admin client keeps its old bearer token
SetAccessTokenForgotten(cl, t) == cl

\* admin client setAccessToken, guarded as on line 114
SetAccessToken(cl, t) ==
    IF t # Undefined /\ t.access_token # NoString
    THEN [cl EXCEPT !.accessToken = t.access_token]
    ELSE cl

\* lines 112-118: the await of line 112 yields `answer` when the request
\* went out and undefined when there was no issuer client to call
RefreshResolve(c, answer) ==
    /\ rpc[c] = "awaitRefresh"
    /\ LET t == IF RefreshSent(c) THEN answer ELSE Undefined IN
       /\ tokenSet' = t
       /\ client' = SetAccessToken(client, t)
       /\ rout' = [rout EXCEPT ![c] = <<"resolved", t>>]
       /\ rtrace' = [rtrace EXCEPT ![c] =
                        IF RefreshSent(c)
                        THEN Append(@, <<"refreshOk", answer>>)
                        ELSE @]
    /\ rpc' = [rpc EXCEPT ![c] = "done"]
    /\ UNCHANGED <<phase, input, options, baseUrl, connect, requestManager,
                   umaConfiguration, resourceManager, permissionManager,
                   issuerClient, now, icalls, rtok>>

\* a wrong handling of a failed refresh: the cached token set is dropped
RefreshRejectClears(c, e) ==
    /\ rpc[c] = "awaitRefresh"
    /\ RefreshSent(c)
    /\ rpc' = [rpc EXCEPT ![c] = "done"]
    /\ rout' = [rout EXCEPT ![c] = <<"rejected", e>>]
    /\ rtrace' = [rtrace EXCEPT ![c] = Append(@, <<"refreshFail", e>>)]
    /\ tokenSet' = Undefined
    /\ UNCHANGED <<phase, input, options, baseUrl, connect, client,
                   requestManager, umaConfiguration, resourceManager,
                   permissionManager, issuerClient, now, icalls, rtok>>

\* the refresh request fails: the await throws
RefreshReject(c, e) ==
    /\ rpc[c] = "awaitRefresh"
    /\ RefreshSent(c)
    /\ rpc' = [rpc EXCEPT ![c] = "done"]
    /\ rout' = [rout EXCEPT ![c] = <<"rejected", e>>]
    /\ rtrace' = [rtrace EXCEPT ![c] = Append(@, <<"refreshFail", e>>)]
    /\ UNCHANGED <<phase, input, svc, now, icalls, rtok>>

(* ------------------------------- clock -------------------------------- *)

Tick ==
    /\ now < MaxTime
    /\ now' = now + 1
    /\ UNCHANGED <<phase, input, svc, icalls, rcalls>>

(* --------------------------- specification ---------------------------- *)

Init ==
    /\ phase = "new"
    /\ input \in OptionsInputs
    /\ options = Undefined
    /\ baseUrl = <<>>
    /\ connect = Undefined
    /\ client = Undefined
    /\ requestManager = Undefined
    /\ umaConfiguration = Undefined
    /\ resourceManager = Undefined
    /\ permissionManager = Undefined
    /\ issuerClient = Undefined
    /\ tokenSet = Undefined
    /\ now = 0
    /\ ipc = [c \in InitCalls |-> "idle"]
    /\ idata = [c \in InitCalls |-> Undefined]
    /\ iout = [c \in InitCalls |-> <<"pending">>]
    /\ itrace = [c \in InitCalls |-> <<>>]
    /\ rpc = [c \in RefCalls |-> "idle"]
    /\ rtok = [c \in RefCalls |-> NoString]
    /\ rout = [c \in RefCalls |-> <<"pending">>]
    /\ rtrace = [c \in RefCalls |-> <<>>]

Next ==
    \/ Construct
    \/ \E c \in InitCalls : InitializeCall(c)
    \/ \E c \in InitCalls, data \in UmaDocs : UmaResolve(c, data)
    \/ \E c \in InitCalls, e \in Errors : UmaReject(c, e)
    \/ \E c \in InitCalls : AuthResolve(c)
    \/ \E c \in InitCalls, e \in Errors : AuthReject(c, e)
    \/ \E c \in InitCalls : DiscoverResolve(c)
    \/ \E c \in InitCalls, e \in Errors : DiscoverReject(c, e)
    \/ \E c \in InitCalls, sh \in Shapes :
           GrantResolve(c, Mint(<<"grant", c>>, sh))
    \/ \E c \in InitCalls, e \in Errors : GrantReject(c, e)
    \/ \E c \in RefCalls : RefreshGrantCall(c)
    \/ \E c \in RefCalls, sh \in Shapes :
           RefreshResolve(c, Mint(<<"refresh", c>>, sh))
    \/ \E c \in RefCalls, e \in Errors : RefreshReject(c, e)
    \/ Tick

Spec == Init /\ [][Next]_vars

(* ------------------------- derived observations ----------------------- *)

\* the (call, position) pairs at which initialize() calls sent request `ev`
Requests(ev) ==
    { <<c, i>> \in InitCalls \X (1..9) :
        i <= Len(itrace[c]) /\ itrace[c][i][1] = ev }

RequestKinds == {"umaReq", "authReq", "discoverReq", "grantReq"}

NoInitializeFailed == \A c \in InitCalls : iout[c][1] # "rejected"

\* refreshGrant() call c starts in this step
Starts(c) == rpc[c] = "idle" /\ rpc'[c] # "idle"

\* the answer to refreshGrant() call c's refresh request is processed in
\* this step
Answered(c) ==
    /\ rpc[c] = "awaitRefresh"
    /\ rpc'[c] = "done"
    /\ rout'[c][1] = "resolved"

Last(tr) == tr[Len(tr)]

Logged(tr, level) == \E i \in 1..Len(tr) : tr[i][1] = level

\* the cached token set exists and its expiry instant, if any, is ahead
CachedAndFresh ==
    /\ tokenSet # Undefined
    /\ (tokenSet.expires_at = 0 \/ tokenSet.expires_at > now)

\* the cached token set exists and its expiry instant has been reached
CachedAndStale ==
    /\ tokenSet # Undefined
    /\ tokenSet.expires_at # 0
    /\ tokenSet.expires_at <= now

(* ------------------------------- claims ------------------------------- *)

\* C1 (as claimed): two initialize() calls, the second started at any time
\* after the first, perform each network side effect (UMA configuration
\* fetch, admin auth, issuer discovery, client-credentials grant) only once
\* in total.  Stated even for the runs alone in which no call has failed.
C1_SideEffectsOnce ==
    NoInitializeFailed =>
        \A ev \in RequestKinds : Cardinality(Requests(ev)) <= 1

\* C2: a refreshGrant() call made while a cached token set exists and is not
\* expired returns that token set and changes nothing: no refresh request,
\* no log entry, the token record and the whole service (the admin client's
\* bearer token included) are left as they were.
C2_FreshTokenReturnedUnchanged ==
    [][\A c \in RefCalls :
          (Starts(c) /\ CachedAndFresh) =>
              /\ rpc'[c] = "done"
              /\ rout'[c] = <<"resolved", tokenSet>>
              /\ rtrace'[c] = rtrace[c]
              /\ tokenSet' = tokenSet
              /\ client' = client
              /\ UNCHANGED svc]_vars

C2_Witness ==
    \E c \in RefCalls :
        /\ rpc[c] = "done"
        /\ rtrace[c] = <<>>
        /\ CachedAndFresh
        /\ rout[c] = <<"resolved", tokenSet>>

\* C3: a refreshGrant() call made while no cached token set exists (also
\* while initialize() is in progress) logs an error and returns null
\* instead of throwing, sends no refresh request and leaves the token record
\* and the admin client's bearer token unchanged.
C3_MissingTokenGivesNull ==
    [][\A c \in RefCalls :
          (Starts(c) /\ tokenSet = Undefined) =>
              /\ rpc'[c] = "done"
              /\ rout'[c] = <<"resolved", Null>>
              /\ rtrace'[c] = << <<"error", "Token set is missing">> >>
              /\ tokenSet' = Undefined
              /\ client' = client
              /\ UNCHANGED svc]_vars

C3_Witness ==
    \E c \in RefCalls, i \in InitCalls :
        /\ ipc[i] = "awaitGrant"
        /\ tokenSet = Undefined
        /\ rout[c] = <<"resolved", Null>>
        /\ rtrace[c] = << <<"error", "Token set is missing">> >>

\* C4 (as claimed): a refreshGrant() call made while the cached token set
\* exists but has no refresh token returns an empty result and logs an
\* error (no refresh request, cached token unchanged).
C4_NoRefreshTokenGivesNull ==
    [][\A c \in RefCalls :
          (Starts(c) /\ tokenSet # Undefined
                     /\ tokenSet.refresh_token = NoString) =>
              /\ rpc'[c] = "done"
              /\ rout'[c] = <<"resolved", Null>>
              /\ Logged(rtrace'[c], "error")
              /\ ~Logged(rtrace'[c], "refreshReq")
              /\ tokenSet' = tokenSet]_vars

\* C4 (amended): a refreshGrant() call made while the cached token set
\* exists, is expired and has no refresh token returns an empty result and
\* logs an error, sends no refresh request and leaves the cached token
\* unchanged; while the token set is not expired the call returns it,
\* refresh token or not.
C4_StaleNoRefreshTokenGivesNull ==
    [][\A c \in RefCalls :
          (Starts(c) /\ tokenSet # Undefined
                     /\ tokenSet.refresh_token = NoString) =>
              IF CachedAndStale
              THEN /\ rpc'[c] = "done"
                   /\ rout'[c] = <<"resolved", Null>>
                   /\ Logged(rtrace'[c], "error")
                   /\ ~Logged(rtrace'[c], "refreshReq")
                   /\ tokenSet' = tokenSet
                   /\ client' = client
              ELSE /\ rpc'[c] = "done"
                   /\ rout'[c] = <<"resolved", tokenSet>>
                   /\ ~Logged(rtrace'[c], "error")
                   /\ tokenSet' = tokenSet]_vars

C4_Witness ==
    \E c \in RefCalls :
        /\ CachedAndStale
        /\ tokenSet.refresh_token = NoString
        /\ rpc[c] = "done"
        /\ rout[c] = <<"resolved", Null>>
        /\ Last(rtrace[c]) = <<"error", "Refresh token is missing">>

\* C5 (as claimed): after every successful refresh (the refresh request is
\* answered with a new token set) the cached token set is the new one and
\* the admin client's bearer token has been set to the new access token
\* before refreshGrant() returns.
C5_BearerIsNewAccessToken ==
    [][\A c \in RefCalls :
          (Answered(c) /\ Logged(rtrace[c], "refreshReq")) =>
              /\ tokenSet' = Last(rtrace'[c])[2]
              /\ rout'[c] = <<"resolved", tokenSet'>>
              /\ client'.accessToken = Last(rtrace'[c])[2].access_token]_vars

\* C5 (amended): after every successful refresh the cached token set is the
\* new one, and before refreshGrant() returns the admin client's bearer
\* token has been set to the new access token when the new token set
\* carries one; when it carries none the bearer token is left as it was.
C5_BearerFollowsNewAccessToken ==
    [][\A c \in RefCalls :
          (Answered(c) /\ Logged(rtrace[c], "refreshReq")) =>
              /\ tokenSet' = Last(rtrace'[c])[2]
              /\ rout'[c] = <<"resolved", tokenSet'>>
              /\ client'.accessToken =
                     IF Last(rtrace'[c])[2].access_token # NoString
                     THEN Last(rtrace'[c])[2].access_token
                     ELSE client.accessToken]_vars

C5_Witness ==
    \E c \in RefCalls :
        /\ rpc[c] = "done"
        /\ Logged(rtrace[c], "refreshReq")
        /\ Last(rtrace[c])[1] = "refreshOk"
        /\ rout[c] = <<"resolved", tokenSet>>
        /\ tokenSet.access_token = <<"access", "refresh", c>>
        /\ client.accessToken = tokenSet.access_token

\* the steps of a successful initialize(), in the order of lines 60-86
InitOrder ==
    <<"umaReq", "umaOk", "managers", "authReq", "authOk",
      "discoverReq", "discoverOk", "grantReq", "grantOk">>

FailEvents == {"umaFail", "authFail", "discoverFail", "grantFail"}

\* the request whose failure event f reports
RequestOf(f) ==
    CASE f = "umaFail" -> "umaReq"
      [] f = "authFail" -> "authReq"
      [] f = "discoverFail" -> "discoverReq"
      [] f = "grantFail" -> "grantReq"

\* the steps initialize() call c has performed, failures and logs left out
StepsOf(c) ==
    SelectSeq(itrace[c],
              LAMBDA e : \E k \in 1..Len(InitOrder) : e[1] = InitOrder[k])

\* initialize() call c sends the UMA configuration request in this step
SendsUmaRequest(c) ==
    /\ Len(itrace'[c]) > Len(itrace[c])
    /\ Last(itrace'[c])[1] = "umaReq"

\* initialize() call d has a UMA configuration request in flight or answered
UmaRequestStanding(d) ==
    /\ \E i \in 1..Len(itrace[d]) : itrace[d][i][1] = "umaReq"
    /\ \A i \in 1..Len(itrace[d]) : itrace[d][i][1] # "umaFail"

HasHttpPrefix(u) ==
    /\ Len(u) >= 4
    /\ u[1] = "h" /\ u[2] = "t" /\ u[3] = "t" /\ u[4] = "p"

\* C6: every initialize() call performs its steps in the order UMA
\* configuration fetch, construction of the managers, admin client
\* authentication, issuer discovery, client-credentials grant, each step
\* starting only after the previous one has completed; what a suspended call
\* waits for rests on the results of the steps before it.
C6_StepsInOrder ==
    \A c \in InitCalls :
        /\ Len(StepsOf(c)) <= Len(InitOrder)
        /\ \A i \in 1..Len(StepsOf(c)) : StepsOf(c)[i][1] = InitOrder[i]
        /\ ipc[c] \in {"awaitAuth", "awaitDiscover", "awaitGrant"} =>
               /\ umaConfiguration # Undefined
               /\ resourceManager # Undefined
               /\ permissionManager # Undefined
        /\ ipc[c] \in {"awaitDiscover", "awaitGrant"} =>
               client.accessToken # NoString
        /\ ipc[c] = "awaitGrant" => issuerClient # Undefined

C6_Witness ==
    \E c \in InitCalls :
        /\ ipc[c] = "done"
        /\ Len(StepsOf(c)) = Len(InitOrder)
        /\ tokenSet # Undefined

\* C7: when a network step of initialize() fails, the call rejects with
\* that failure, the failure is the last thing the call does (none of the
\* later steps is performed) and no request is sent a second time by the
\* call.
C7_FailurePropagates ==
    \A c \in InitCalls :
        /\ \A i \in 1..Len(itrace[c]) :
               itrace[c][i][1] \in FailEvents =>
                   /\ i = Len(itrace[c])
                   /\ i > 1
                   /\ itrace[c][i - 1][1] = RequestOf(itrace[c][i][1])
                   /\ iout[c] = <<"rejected", itrace[c][i][2]>>
                   /\ ipc[c] = "done"
        /\ iout[c][1] = "rejected" => Last(itrace[c])[1] \in FailEvents
        /\ \A i, j \in 1..Len(itrace[c]) :
               (itrace[c][i][1] \in RequestKinds
                   /\ itrace[c][i][1] = itrace[c][j][1]) => i = j

C7_Witness ==
    \E c \in InitCalls :
        /\ iout[c] = <<"rejected", "E401">>
        /\ Last(itrace[c]) = <<"discoverFail", "E401">>
        /\ issuerClient = Undefined
        /\ tokenSet = Undefined

\* C8 (as claimed): over any interleaving of initialize() and refreshGrant()
\* calls the UMA configuration document is requested at most once (here:
\* never while an earlier request is in flight or has been answered), and
\* once umaConfiguration has been stored it is never reassigned.
C8_UmaFetchedOnceNeverReassigned ==
    [][/\ umaConfiguration # Undefined => umaConfiguration' = umaConfiguration
       /\ \A c, d \in InitCalls :
              (c # d /\ SendsUmaRequest(c)) => ~UmaRequestStanding(d)]_vars

\* C9: the constructor throws for a base URL without the http/https prefix
\* and then produces nothing (no options, middleware adapter, admin client
\* or request manager, and no call can be made); for a base URL with the
\* prefix it succeeds, without any network request and with no UMA
\* configuration and no token set yet.
C9_ConstructorValidatesBaseUrl ==
    [][/\ (phase = "new" /\ phase' # "new") =>
              IF ~HasHttpPrefix(input.config.baseUrl)
              THEN /\ phase' = "threw"
                   /\ options' = Undefined
                   /\ connect' = Undefined
                   /\ client' = Undefined
                   /\ requestManager' = Undefined
              ELSE /\ phase' = "ready"
                   /\ options' = input
                   /\ connect' # Undefined
                   /\ client' # Undefined
                   /\ client'.accessToken = NoString
                   /\ requestManager' # Undefined
                   /\ umaConfiguration' = Undefined
                   /\ tokenSet' = Undefined
                   /\ \A c \in InitCalls : itrace'[c] = <<>>
                   /\ \A c \in RefCalls : rtrace'[c] = <<>>
       /\ phase = "threw" => UNCHANGED <<phase, svc, icalls, rcalls>>]_vars

C9_Witness ==
    /\ phase = "threw"
    /\ input.config.baseUrl = <<"f", "t", "p", ":", "/", "/", "k">>
    /\ connect = Undefined
    /\ client = Undefined
    /\ requestManager = Undefined

\* a second refreshGrant() call b starts while call a's refresh of the same
\* expired cached token set is still in flight
SecondCallStarts(a, b) ==
    /\ a # b
    /\ Starts(b)
    /\ rpc[a] = "awaitRefresh"
    /\ CachedAndStale
    /\ tokenSet.refresh_token # NoString
    /\ rtok[a] = tokenSet.refresh_token

\* the answer to call c's refresh arrives after the answer to call a's
\* refresh, both requests having carried the same refresh token
SecondAnswerArrives(a, c) ==
    /\ a # c
    /\ Answered(c)
    /\ Logged(rtrace[c], "refreshReq")
    /\ rpc[a] = "done"
    /\ Logged(rtrace[a], "refreshOk")
    /\ rtok[a] = rtok[c]

\* C10 (as claimed): concurrent refreshGrant() calls are not serialised:
\* with the cached token set expired and holding a refresh token, a call
\* started while another one's refresh is in flight passes the expiry check
\* too and sends a refresh request with the same refresh token; the cached
\* token set and the admin bearer token end up being those of the answer
\* that arrives last.
C10_LastAnswerWins ==
    [][\A a, b \in RefCalls :
          /\ SecondCallStarts(a, b) =>
                 /\ rpc'[b] = "awaitRefresh"
                 /\ Logged(rtrace[a], "refreshReq")
                 /\ Last(rtrace'[b]) = <<"refreshReq", rtok[a]>>
          /\ SecondAnswerArrives(a, b) =>
                 /\ tokenSet' = Last(rtrace'[b])[2]
                 /\ client'.accessToken = tokenSet'.access_token]_vars

\* C10 (amended): as claimed for the two requests and for the cached token
\* set, which ends up being that of the answer that arrives last; the admin
\* bearer token ends up being the access token of that answer when it
\* carries one, and is otherwise left as it was.
C10_LastAnswerWinsBearerIfPresent ==
    [][\A a, b \in RefCalls :
          /\ SecondCallStarts(a, b) =>
                 /\ rpc'[b] = "awaitRefresh"
                 /\ Logged(rtrace[a], "refreshReq")
                 /\ Last(rtrace'[b]) = <<"refreshReq", rtok[a]>>
          /\ SecondAnswerArrives(a, b) =>
                 /\ tokenSet' = Last(rtrace'[b])[2]
                 /\ client'.accessToken =
                        IF tokenSet'.access_token # NoString
                        THEN tokenSet'.access_token
                        ELSE client.accessToken]_vars

C10_Witness ==
    \E a, b \in RefCalls :
        /\ a # b
        /\ rpc[a] = "done" /\ rpc[b] = "done"
        /\ Logged(rtrace[a], "refreshOk") /\ Logged(rtrace[b], "refreshOk")
        /\ rtok[a] = rtok[b]
        /\ rout[a][2].access_token = <<"access", "refresh", a>>
        /\ tokenSet = rout[b][2]
        /\ tokenSet.access_token = <<"access", "refresh", b>>
        /\ client.accessToken = tokenSet.access_token

\* the refresh request of refreshGrant() call c fails in this step
RefreshFails(c) ==
    /\ rpc[c] = "awaitRefresh"
    /\ rpc'[c] = "done"
    /\ Last(rtrace'[c])[1] = "refreshFail"

\* refreshGrant() call a has failed and the token set it tried to refresh
\* is still the cached one
FailedAndStillCached(a) ==
    /\ rpc[a] = "done"
    /\ rout[a][1] = "rejected"
    /\ tokenSet # Undefined
    /\ tokenSet.refresh_token = rtok[a]

\* C11: when the issuer client's refresh call fails, refreshGrant() rejects
\* with that failure and changes nothing: the cached token set and the
\* admin client's bearer token are what they were; a later refreshGrant()
\* call that still finds that token set cached attempts the refresh again
\* with the same refresh token.
C11_FailedRefreshChangesNothing ==
    [][\A c \in RefCalls :
          /\ RefreshFails(c) =>
                 /\ rout'[c] = <<"rejected", Last(rtrace'[c])[2]>>
                 /\ tokenSet' = tokenSet
                 /\ client' = client
                 /\ UNCHANGED svc
          /\ \A a \in RefCalls :
                 (Starts(c) /\ FailedAndStillCached(a)) =>
                     /\ rpc'[c] = "awaitRefresh"
                     /\ Last(rtrace'[c]) = <<"refreshReq", rtok[a]>>]_vars

C11_Witness ==
    \E a, c \in RefCalls :
        /\ FailedAndStillCached(a)
        /\ Last(rtrace[a]) = <<"refreshFail", "ECONNREFUSED">>
        /\ client.accessToken = AdminToken
        /\ rpc[c] = "awaitRefresh"
        /\ Last(rtrace[c]) = <<"refreshReq", rtok[a]>>

\* the realm base URL url.resolve derives from the two accepted base URLs
RealmUrls ==
    { <<"h", "t", "t", "p", ":", "/", "/", "k",
        "/", "a", "u", "t", "h", "/", "r", "e", "a", "l", "m", "s", "/", "m">>,
      <<"h", "t", "t", "p", "s", ":", "/", "/", "k",
        "/", "a", "u", "t", "h", "/", "r", "e", "a", "l", "m", "s", "/", "m">> }

\* C12: the configuration is immutable after construction: no step of an
\* initialize() or refreshGrant() call, successful, failing or returning
\* early, changes the options (base URL, realm name, client id, client
\* secret) or the derived realm base URL; they stay what the constructor
\* made of its argument.
C12_ConfigurationImmutable ==
    [][phase = "ready" =>
          /\ options' = options
          /\ baseUrl' = baseUrl
          /\ options' = input
          /\ baseUrl' \in RealmUrls
          /\ requestManager'.baseUrl = baseUrl']_vars

C12_Witness ==
    /\ phase = "ready"
    /\ options = input
    /\ baseUrl \in RealmUrls
    /\ \E a, b \in InitCalls :
           /\ iout[a][1] = "rejected"
           /\ iout[b] = <<"resolved">> /\ itrace[b] = <<>>
    /\ \E c \in RefCalls : rout[c] = <<"resolved", Null>>

\* C13: in every reachable state a cached token set comes with the issuer
\* client, the UMA configuration and both managers; so a refresh is never
\* skipped for want of an issuer client (a call suspended on line 112 has
\* sent its request), a refresh that succeeds never yields an absent token
\* set, and a token set once acquired is never lost.
C13_TokenImpliesIssuerClient ==
    /\ tokenSet # Undefined =>
           /\ issuerClient # Undefined
           /\ umaConfiguration # Undefined
           /\ resourceManager # Undefined
           /\ permissionManager # Undefined
    /\ \A c \in RefCalls :
           /\ rpc[c] = "awaitRefresh" => Logged(rtrace[c], "refreshReq")
           /\ (rpc[c] = "done" /\ rout[c][1] = "resolved"
                   /\ rtok[c] # NoString) =>
                  /\ Logged(rtrace[c], "refreshOk")
                  /\ rout[c][2] # Undefined
                  /\ rout[c][2] # Null
    /\ (\E c \in InitCalls : Logged(itrace[c], "grantOk")) =>
           tokenSet # Undefined

C13_Witness ==
    /\ tokenSet # Undefined
    /\ issuerClient # Undefined
    /\ \E c, d \in RefCalls :
           /\ rpc[c] = "awaitRefresh"
           /\ Logged(rtrace[c], "refreshReq")
           /\ rpc[d] = "done"
           /\ Logged(rtrace[d], "refreshOk")
           /\ tokenSet = rout[d][2]

\* initialize() call c starts in this step
InitStarts(c) == ipc[c] = "idle" /\ ipc'[c] # "idle"

\* initialize() call a has failed at admin auth, issuer discovery or the
\* grant, that is after the UMA configuration was stored
FailedAfterUma(a) ==
    /\ iout[a][1] = "rejected"
    /\ Last(itrace[a])[1] \in {"authFail", "discoverFail", "grantFail"}

\* an initialize() call that starts once the UMA configuration is stored
\* returns at once, sending nothing and changing nothing
LaterInitializeReturns ==
    \A c \in InitCalls :
        (InitStarts(c) /\ umaConfiguration # Undefined) =>
            /\ ipc'[c] = "done"
            /\ iout'[c] = <<"resolved">>
            /\ itrace'[c] = <<>>
            /\ UNCHANGED svc

\* C14 (as claimed): the guard of initialize() is the presence of the UMA
\* configuration alone: once it is stored every later initialize() call
\* returns without any network request, also when the earlier call failed
\* at admin auth, issuer discovery or the grant; in that case no token set
\* is ever acquired and every later refreshGrant() call returns null.
C14_FailedInitializeNeverRepaired ==
    [][/\ LaterInitializeReturns
       /\ (\E a \in InitCalls : FailedAfterUma(a)) =>
              /\ tokenSet' = Undefined
              /\ \A b \in RefCalls :
                     Starts(b) => rout'[b] = <<"resolved", Null>>]_vars

\* the same statement for the runs in which the failed call is the only
\* one that got past the guard
C14_SoleInitializeNeverRepaired ==
    [][/\ LaterInitializeReturns
       /\ (\E a \in InitCalls :
               /\ FailedAfterUma(a)
               /\ \A d \in InitCalls \ {a} : itrace[d] = <<>>) =>
              /\ tokenSet' = Undefined
              /\ \A b \in RefCalls :
                     Starts(b) => rout'[b] = <<"resolved", Null>>]_vars

\* initialize() call c completes its admin auth step in this step
AuthStep(c) == ipc[c] = "awaitAuth" /\ ipc'[c] = "awaitDiscover"

\* the refresh of refreshGrant() call c is answered in this step with a
\* token set that carries an access token
AnsweredWithAccess(c) ==
    /\ Answered(c)
    /\ Logged(rtrace[c], "refreshReq")
    /\ Last(rtrace'[c])[2].access_token # NoString

\* some refresh whose answer carried an access token has completed
RefreshWithAccessCompleted ==
    \E c \in RefCalls :
        /\ rpc[c] = "done"
        /\ Logged(rtrace[c], "refreshOk")
        /\ rout[c][2].access_token # NoString

\* at most one initialize() call has got past the guard of line 57
SingleInitialize ==
    \A c, d \in InitCalls : c # d => (itrace[c] = <<>> \/ itrace[d] = <<>>)

\* the admin client's bearer token is written by nothing but the admin auth
\* step and a refresh whose answer carries an access token
BearerWrittenOnlyByAuthAndRefresh ==
    (phase = "ready" /\ client'.accessToken # client.accessToken) =>
        \/ \E c \in InitCalls :
               AuthStep(c) /\ client'.accessToken = AdminToken
        \/ \E c \in RefCalls :
               /\ AnsweredWithAccess(c)
               /\ client'.accessToken = Last(rtrace'[c])[2].access_token

\* C15 (as claimed): the admin client's bearer token is written only by the
\* admin auth step of initialize() and by a refresh whose answer carries an
\* access token; once such a refresh has completed, under any interleaving
\* of refreshGrant() calls, the bearer token equals the access token of the
\* cached token set.  Stated even for the runs alone in which a single
\* initialize() call got past the guard.
C15_BearerMatchesCachedToken ==
    [][/\ BearerWrittenOnlyByAuthAndRefresh
       /\ (RefreshWithAccessCompleted' /\ SingleInitialize') =>
              /\ tokenSet' # Undefined
              /\ client'.accessToken = tokenSet'.access_token]_vars

\* C15 (amended): the bearer token is written only by the admin auth step
\* and by a refresh whose answer carries an access token; when such a
\* refresh completes the bearer token equals the access token of the cached
\* token set, and it stays equal until the cached token set is replaced
\* again (by a refresh answer without an access token, or by a grant) or an
\* admin auth step runs again.
C15_BearerMatchesUntilReplaced ==
    [][/\ BearerWrittenOnlyByAuthAndRefresh
       /\ \A c \in RefCalls :
              AnsweredWithAccess(c) =>
                  client'.accessToken = tokenSet'.access_token
       /\ (/\ tokenSet # Undefined
           /\ client.accessToken = tokenSet.access_token
           /\ tokenSet' = tokenSet
           /\ ~\E c \in InitCalls : AuthStep(c)) =>
              client'.accessToken = tokenSet'.access_token]_vars

C15_Witness ==
    \E a, b \in RefCalls :
        /\ a # b
        /\ rpc[a] = "done" /\ rpc[b] = "done"
        /\ Logged(rtrace[a], "refreshOk") /\ Logged(rtrace[b], "refreshOk")
        /\ rout[a][2].access_token # NoString
        /\ rtok[b] = rout[a][2].refresh_token
        /\ tokenSet = rout[b][2]
        /\ tokenSet.access_token # NoString
        /\ client.accessToken = tokenSet.access_token

=============================================================================
